---- MODULE Spec2Model ----
(***************************************************************************)
(* Phishguard scoring service (src/app.py): three inference endpoints      *)
(* (/scan_url, /scan_email, /scan_combined) over five process-wide model   *)
(* globals loaded at startup, the domain reputation probes, the rule       *)
(* scorer, the URL blend and the risk classifier.                          *)
(*                                                                         *)
(* Numbers.  Probabilities, scores and thresholds are fixed-point          *)
(* thousandths (One = 1.0); entropies are thousandths of a bit.  The       *)
(* arithmetic is exact where the program uses IEEE doubles: the two agree  *)
(* on every comparison made here except where a double product rounds      *)
(* across a threshold (0.3*0.25 + 0.7*0.75 is one ulp below 0.6), and the  *)
(* probability grid avoids that point.                                     *)
(*                                                                         *)
(* Strings are sequences of one-character strings, so that urlparse,       *)
(* tldextract and shannon_entropy are computed character by character.     *)
(* An optional value (Python None) is <<>>, a present value v is <<v>>.    *)
(***************************************************************************)
EXTENDS Integers, Sequences, FiniteSets, TLC

\* ---------------------------------------------------------------- bounds
NReq == 2

Today == 20000

\* ------------------------------------------------------------- constants
One == 10 * 100

URL_BLEND == 300

None == <<>>

Some(v) == <<v>>

EmptyDict == [k \in {} |-> TRUE]

\* ------------------------------------------------------- string helpers
Letters ==
  {"a", "b", "c", "d", "e", "f", "g", "h", "i", "j", "k", "l", "m", "n", "o",
   "p", "q", "r", "s", "t", "u", "v", "w", "x", "y", "z"}

Digits == {"0", "1", "2", "3", "4", "5", "6", "7", "8", "9"}

SchemeChars == Letters \cup Digits \cup {"+", "-", "."}

\* str.find for a set of characters: the first position holding one of them,
\* 0 when there is none (positions are 1-based).
FindAny(s, cs) ==
  IF \E i \in 1..Len(s) : s[i] \in cs
  THEN CHOOSE i \in 1..Len(s) : s[i] \in cs /\ \A j \in 1..(i - 1) : s[j] \notin cs
  ELSE 0

\* str.rfind for one character.
RFind(s, c) ==
  IF \E i \in 1..Len(s) : s[i] = c
  THEN CHOOSE i \in 1..Len(s) : s[i] = c /\ \A j \in (i + 1)..Len(s) : s[j] # c
  ELSE 0

From(s, i) == SubSeq(s, i, Len(s))

\* s.partition(any of cs)[0]
Before(s, cs) == IF FindAny(s, cs) = 0 THEN s ELSE SubSeq(s, 1, FindAny(s, cs) - 1)

StartsWithSlashes(s) == Len(s) >= 2 /\ s[1] = "/" /\ s[2] = "/"

RECURSIVE RStrip(_, _)
RStrip(s, cs) ==
  IF s # <<>> /\ s[Len(s)] \in cs THEN RStrip(SubSeq(s, 1, Len(s) - 1), cs) ELSE s

RECURSIVE LStrip(_, _)
LStrip(s, cs) == IF s # <<>> /\ s[1] \in cs THEN LStrip(Tail(s), cs) ELSE s

\* str.split(c): the list of the pieces between occurrences of c.
RECURSIVE Split(_, _)
Split(s, c) ==
  IF FindAny(s, {c}) = 0 THEN <<s>>
  ELSE <<SubSeq(s, 1, FindAny(s, {c}) - 1)>> \o Split(From(s, FindAny(s, {c}) + 1), c)

\* ------------------------------------------------------------- urlparse
\* urllib.parse.urlsplit: an optional scheme (a letter, then scheme
\* characters, up to the first ':'), then a network authority only after
\* a leading "//", ending at the first of "/", "?", "#".
HasScheme(url) ==
  LET i == FindAny(url, {":"})
  IN  i > 1 /\ url[1] \in Letters /\ \A j \in 1..(i - 1) : url[j] \in SchemeChars

AfterScheme(url) == IF HasScheme(url) THEN From(url, FindAny(url, {":"}) + 1) ELSE url

netloc(url) ==
  IF StartsWithSlashes(AfterScheme(url))
  THEN Before(From(AfterScheme(url), 3), {"/", "?", "#"})
  ELSE <<>>

\* urlsplit raises ValueError("Invalid IPv6 URL") on an unbalanced bracket
\* in the authority.
urlparse_raises(url) ==
  LET n == netloc(url)
      open == \E i \in 1..Len(n) : n[i] = "["
      close == \E i \in 1..Len(n) : n[i] = "]"
  IN  open # close

\* ----------------------------------------------------------- tldextract
\* The public suffix list, bounded to the suffixes the URLs below use.
PublicSuffixes == {<<"c", "o", "m">>, <<"t", "k">>}

\* tldextract's lenient_netloc: drop a scheme, cut at the path, the
\* userinfo and the port, strip blanks and trailing dots.
lenient_netloc(s) ==
  LET schemeless == IF StartsWithSlashes(s) THEN From(s, 3)
                    ELSE IF HasScheme(s) /\ StartsWithSlashes(AfterScheme(s))
                         THEN From(AfterScheme(s), 3)
                         ELSE s
      host == Before(schemeless, {"/", "?", "#"})
      nouser == From(host, RFind(host, "@") + 1)
      noport == Before(nouser, {":"})
  IN  RStrip(RStrip(LStrip(noport, {" "}), {" "}), {"."})

\* ExtractResult.registered_domain: "<domain>.<suffix>" when the host ends
\* in a public suffix with a label before it, else the empty string.
registered_domain(s) ==
  LET labels == Split(lenient_netloc(s), ".")
      n == Len(labels)
  IN  IF n >= 2 /\ labels[n] \in PublicSuffixes /\ labels[n - 1] # <<>>
      THEN labels[n - 1] \o <<".">> \o labels[n]
      ELSE <<>>

\* -------------------------------------------------------- shannon_entropy
\* 1000 * log2(k) for k = 1..16, rounded.
Log2Milli ==
  <<0, 1000, 1585, 2000, 2322, 2585, 2807, 3000,
    3170, 3322, 3459, 3585, 3700, 3807, 3907, 4000>>

Count(s, c) == Cardinality({i \in 1..Len(s) : s[i] = c})

RECURSIVE SumOver(_, _, _)
SumOver(cs, s, n) ==
  IF cs = {} THEN 0
  ELSE LET c == CHOOSE x \in cs : TRUE
       IN  Count(s, c) * (Log2Milli[n] - Log2Milli[Count(s, c)])
             + SumOver(cs \ {c}, s, n)

\* -sum(p * log2(p)) over the distinct characters, p = count / len:
\* sum(count * (log2(len) - log2(count))) / len.
shannon_entropy(s) ==
  IF s = <<>> THEN 0
  ELSE SumOver({s[i] : i \in 1..Len(s)}, s, Len(s)) \div Len(s)

\* rule_score with an unknown age taken for a young domain
rule_score_unknown_is_young(info) ==
  LET score == (IF info.age = None \/ info.age[1] < 30 THEN 1 ELSE 0)
             + (IF ~info.dns THEN 1 ELSE 0)
             + (IF ~info.ssl THEN 1 ELSE 0)
             + (IF info.entropy > 3500 THEN 1 ELSE 0)
      total == 4
  IN  (score * One) \div total

\* ------------------------------------------------------------ rule_score
rule_score(info) ==
  LET score == (IF info.age # None /\ info.age[1] < 30 THEN 1 ELSE 0)
             + (IF ~info.dns THEN 1 ELSE 0)
             + (IF ~info.ssl THEN 1 ELSE 0)
             + (IF info.entropy > 3500 THEN 1 ELSE 0)
      total == 4
  IN  (score * One) \div total

\* risk_level with the lower boundary given to the lower tier
risk_level_inclusive(prob) ==
  IF prob <= (3 * One) \div 10 THEN "LOW"
  ELSE IF prob < (6 * One) \div 10 THEN "MEDIUM"
  ELSE "HIGH"

\* ------------------------------------------------------------ risk_level
risk_level(prob) ==
  IF prob < (3 * One) \div 10 THEN "LOW"
  ELSE IF prob < (6 * One) \div 10 THEN "MEDIUM"
  ELSE "HIGH"

\* the phishing flag cut at the HIGH threshold
phishing_at_high(prob) == prob >= (6 * One) \div 10

\* bool(p >= 0.5), the phishing flag of the three responses
phishing(prob) == prob >= One \div 2

\* the blend with the two weights exchanged
blended_swapped(url_ml, domain_rule) ==
  ((One - URL_BLEND) * url_ml + URL_BLEND * domain_rule) \div One

\* the blend left out: the classifier's probability alone
blended_ml_only(url_ml, domain_rule) == url_ml

\* (URL_BLEND * url_ml) + ((1 - URL_BLEND) * domain_rule)
blended(url_ml, domain_rule) ==
  (URL_BLEND * url_ml + (One - URL_BLEND) * domain_rule) \div One

\* ---------------------------------------------------------------- inputs
U_paypal ==
  <<"h", "t", "t", "p", "s", ":", "/", "/", "w", "w", "w", ".", "p", "a", "y",
    "p", "a", "l", ".", "c", "o", "m", "/", "l", "o", "g", "i", "n">>

U_random ==
  <<"h", "t", "t", "p", ":", "/", "/", "x", "k", "2", "9", "f", "q", "z", "7",
    "w", "3", "a", "b", "5", "c", "d", "e", ".", "t", "k">>

U_edge ==
  <<"h", "t", "t", "p", ":", "/", "/", "a", "a", "b", "b", "c", "c", "d", "d",
    "e", "f", "g", "h", "i", "j", "k", "l", ".", "c", "o", "m", "/">>

U_bare == <<"p", "a", "y", "p", "a", "l", ".", "c", "o", "m">>

U_text == <<"c", "l", "i", "c", "k", " ", "h", "e", "r", "e">>

U_empty == <<>>

U_badv6 == <<"h", "t", "t", "p", ":", "/", "/", "[", ":", ":", "1">>

AllURLs == {U_paypal, U_random, U_edge, U_bare, U_text, U_empty, U_badv6}

FewURLs == {U_random, U_text, U_badv6}

AllContents == {"mail_invoice", "mail_newsletter"}

FewContents == {"mail_invoice"}

NoContent == "none"

Endpoints == {"scan_url", "scan_email", "scan_combined"}

\* What the registration lookup can answer: it raises, it returns a record
\* whose creation_date is not a datetime (None, a string), a datetime, or a
\* list of them (possibly empty).
WhoisAnswer(kind, created) == [kind |-> kind, created |-> created]

AllWhois ==
  {WhoisAnswer("raise", <<>>), WhoisAnswer("other", <<>>),
   WhoisAnswer("list", <<>>), WhoisAnswer("list", <<Today - 29, Today - 400>>)}
  \cup {WhoisAnswer("date", <<Today - d>>) : d \in {0, 5, 30, 400}}

FewWhois == {WhoisAnswer("raise", <<>>), WhoisAnswer("date", <<Today - 5>>)}

\* ------------------------------------------------ the pickled classifiers
\* A fitted classifier is its decision table: the positive-class
\* probability it gives each input.  The grid holds each threshold, the
\* value just below it, and the extremes.
ProbGrid == {0, 100, 290, 300, 490, 500, 590, 600, 900, 990, 1000}

\* The coordinator is fitted on [url_ml, email_prob, 1, 1]; the candidates
\* weigh the first, the second, or both base outputs, each through the
\* constant slot that follows the contract.
Coordinators == {"by_url", "by_email", "by_mean"}

Bundle(u, e, k) ==
  [url_model |-> u, email_model |-> e, coord_model |-> k,
   url_vec |-> "url_vectorizer", email_vec |-> "email_vectorizer"]

ConstantOn(S, p) == [x \in S |-> p]

AllBundles ==
  {Bundle(ConstantOn(AllURLs, p), ConstantOn(AllContents, 500), "by_url") :
     p \in ProbGrid}
  \cup {Bundle(ConstantOn(AllURLs, 900), ConstantOn(AllContents, q), "by_email") :
          q \in ProbGrid}
  \cup {Bundle(ConstantOn(AllURLs, p), ConstantOn(AllContents, 100), "by_mean") :
          p \in ProbGrid}

FewBundles ==
  {Bundle([x \in AllURLs |-> IF x = U_random THEN 900 ELSE 100],
          [c \in AllContents |-> 500], "by_url"),
   Bundle([x \in AllURLs |-> 300],
          [c \in AllContents |-> 590], "by_email")}

\* vectorizer.transform([text]): the feature row of the text
transform(vec, text) == <<text>>

\* classifier.predict_proba(rows): per row, [P(class 0), P(class 1)]
predict_proba(model, rows) ==
  [i \in 1..Len(rows) |-> <<One - model[rows[i]], model[rows[i]]>>]

\* coord_model.predict_proba(X_meta)
coord_predict_proba(model, rows) ==
  [i \in 1..Len(rows) |->
     LET x == rows[i]
         p == IF model = "by_url" THEN x[1] * x[3]
              ELSE IF model = "by_email" THEN x[2] * x[4]
              ELSE ((x[1] * x[3]) + (x[2] * x[4])) \div 2
     IN  <<One - p, p>>]

\* ----------------------------------------------------------------- state
VARIABLES url_model, email_model, coord_model, url_vec, email_vec, req

models == <<url_model, email_model, coord_model, url_vec, email_vec>>

vars == <<url_model, email_model, coord_model, url_vec, email_vec, req>>

Slots == 1..NReq

NoCalls == [whois |-> 0, dns |-> 0, ssl |-> 0]

NoResponse == [status |-> 0, error |-> "", body |-> EmptyDict]

Idle ==
  [pc |-> "idle", endpoint |-> "none", valid |-> TRUE,
   url |-> <<>>, content |-> NoContent,
   url_ml |-> None, email_prob |-> None, X_meta |-> <<>>,
   registered |-> <<>>, info |-> EmptyDict,
   whois |-> None, dns |-> None, ssl |-> None,
   calls |-> NoCalls, response |-> NoResponse]

Ok(body) == [status |-> 200, error |-> "", body |-> body]

\* An exception that leaves a handler is answered by the framework with
\* 500 Internal Server Error.
ServerError(exc) == [status |-> 500, error |-> exc, body |-> EmptyDict]

\* A body that fails the request schema is answered with 422 before the
\* handler is called.
Unprocessable == [status |-> 422, error |-> "ValidationError", body |-> EmptyDict]

Init ==
  /\ url_model = None
  /\ email_model = None
  /\ coord_model = None
  /\ url_vec = None
  /\ email_vec = None
  /\ req = [r \in Slots |-> Idle]

\* load_models, the startup hook: the five globals, once.
load_models(bundles) ==
  /\ url_model = None
  /\ \E b \in bundles :
       /\ url_model' = Some(b.url_model)
       /\ email_model' = Some(b.email_model)
       /\ coord_model' = Some(b.coord_model)
       /\ url_vec' = Some(b.url_vec)
       /\ email_vec' = Some(b.email_vec)
  /\ UNCHANGED req

\* A request whose body satisfies the endpoint's schema reaches its handler.
Receive(r, urls, contents) ==
  /\ req[r].pc = "idle"
  /\ \E e \in Endpoints, u \in urls, c \in contents :
       req' = [req EXCEPT ![r] =
                 [Idle EXCEPT !.pc = "recv", !.endpoint = e,
                              !.url = IF e = "scan_email" THEN <<>> ELSE u,
                              !.content = IF e = "scan_url" THEN NoContent ELSE c]]
  /\ UNCHANGED models

\* A request whose body lacks a required field never reaches its handler.
ReceiveInvalid(r) ==
  /\ req[r].pc = "idle"
  /\ \E e \in Endpoints :
       req' = [req EXCEPT ![r] =
                 [Idle EXCEPT !.pc = "done", !.endpoint = e, !.valid = FALSE,
                              !.response = Unprocessable]]
  /\ UNCHANGED models

\* scan_url without the fall-back to the raw string: the domain is the
\* network authority only
ScanUrlBegin_netloc_only(r) ==
  /\ req[r].pc = "recv"
  /\ req[r].endpoint = "scan_url"
  /\ req' = [req EXCEPT ![r] =
       IF url_model = None \/ url_vec = None
       THEN [@ EXCEPT !.pc = "done", !.response = ServerError("AttributeError")]
       ELSE LET p == predict_proba(url_model[1], transform(url_vec[1], req[r].url))[1][2]
            IN  IF urlparse_raises(req[r].url)
                THEN [@ EXCEPT !.pc = "done", !.url_ml = Some(p),
                               !.response = ServerError("ValueError")]
                ELSE [@ EXCEPT !.pc = "whois", !.url_ml = Some(p),
                               !.registered = registered_domain(netloc(req[r].url))]]
  /\ UNCHANGED models

\* scan_url up to the first probe: the URL classifier, then the head of
\* extract_domain_info (urlparse, netloc or url, tldextract).
ScanUrlBegin(r) ==
  /\ req[r].pc = "recv"
  /\ req[r].endpoint = "scan_url"
  /\ req' = [req EXCEPT ![r] =
       IF url_model = None \/ url_vec = None
       THEN [@ EXCEPT !.pc = "done", !.response = ServerError("AttributeError")]
       ELSE LET p == predict_proba(url_model[1], transform(url_vec[1], req[r].url))[1][2]
                domain == IF netloc(req[r].url) # <<>> THEN netloc(req[r].url)
                          ELSE req[r].url
            IN  IF urlparse_raises(req[r].url)
                THEN [@ EXCEPT !.pc = "done", !.url_ml = Some(p),
                               !.response = ServerError("ValueError")]
                ELSE [@ EXCEPT !.pc = "whois", !.url_ml = Some(p),
                               !.registered = registered_domain(domain)]]
  /\ UNCHANGED models

\* The age the registration answer gives, None when the lookup raises, the
\* list is empty or the creation date is not a datetime.
whois_age(w, now) ==
  IF w.kind \in {"raise", "other"} \/ w.created = <<>> THEN None
  ELSE Some(now - w.created[1])

\* the first probe without its except clause: a lookup that raises ends
\* the request
WhoisProbe_unguarded(r, answers) ==
  /\ req[r].pc = "whois"
  /\ \E w \in answers :
       req' = [req EXCEPT ![r] =
                 IF w.kind = "raise"
                 THEN [@ EXCEPT !.pc = "done", !.whois = Some(w),
                                !.calls = [@ EXCEPT !.whois = @ + 1],
                                !.response = ServerError("WhoisError")]
                 ELSE [@ EXCEPT !.pc = "dns", !.whois = Some(w),
                                !.calls = [@ EXCEPT !.whois = @ + 1],
                                !.info = [age |-> whois_age(w, Today)]]]
  /\ UNCHANGED models

\* First probe: whois.whois(registered), creation date, age in days.
WhoisProbe(r, answers) ==
  /\ req[r].pc = "whois"
  /\ \E w \in answers :
       req' = [req EXCEPT ![r] =
                 [@ EXCEPT !.pc = "dns", !.whois = Some(w),
                           !.calls = [@ EXCEPT !.whois = @ + 1],
                           !.info = [age |-> whois_age(w, Today)]]]
  /\ UNCHANGED models

\* Second probe: dns.resolver.resolve(registered, 'A').
DnsProbe(r) ==
  /\ req[r].pc = "dns"
  /\ \E ok \in BOOLEAN :
       req' = [req EXCEPT ![r] =
                 [@ EXCEPT !.pc = "ssl", !.dns = Some(ok),
                           !.calls = [@ EXCEPT !.dns = @ + 1],
                           !.info = @ @@ [dns |-> ok]]]
  /\ UNCHANGED models

\* The body /scan_url returns for a URL probability and the signals.
scan_url_body(url_ml, info) ==
  LET domain_rule == rule_score(info)
      b == blended(url_ml, domain_rule)
  IN  [ml_score |-> url_ml, domain_score |-> domain_rule, blended_score |-> b,
       risk |-> risk_level(b), phishing |-> phishing(b)]

\* Third probe (TLS handshake on port 443), then the rest of the handler:
\* the label's entropy, the rule score, the blend and the response.
SslProbe(r) ==
  /\ req[r].pc = "ssl"
  /\ \E ok \in BOOLEAN :
       req' = [req EXCEPT ![r] =
                 LET label == Split(req[r].registered, ".")[1]
                     info == req[r].info @@ [ssl |-> ok, entropy |-> shannon_entropy(label)]
                 IN  [@ EXCEPT !.pc = "done", !.ssl = Some(ok),
                               !.calls = [@ EXCEPT !.ssl = @ + 1],
                               !.info = info,
                               !.response = Ok(scan_url_body(req[r].url_ml[1], info))]]
  /\ UNCHANGED models

\* scan_email rebinding the email model global after a prediction
ScanEmail_rebinds(r) ==
  /\ req[r].pc = "recv"
  /\ req[r].endpoint = "scan_email"
  /\ req' = [req EXCEPT ![r] =
       IF email_model = None \/ email_vec = None
       THEN [@ EXCEPT !.pc = "done", !.response = ServerError("AttributeError")]
       ELSE LET p == predict_proba(email_model[1],
                                   transform(email_vec[1], req[r].content))[1][2]
            IN  [@ EXCEPT !.pc = "done", !.email_prob = Some(p),
                          !.response = Ok([probability |-> p,
                                           risk |-> risk_level(p),
                                           phishing |-> phishing(p)])]]
  /\ email_model' = Some(ConstantOn(AllContents, 0))
  /\ UNCHANGED <<url_model, coord_model, url_vec, email_vec>>

\* scan_email, whole.
ScanEmail(r) ==
  /\ req[r].pc = "recv"
  /\ req[r].endpoint = "scan_email"
  /\ req' = [req EXCEPT ![r] =
       IF email_model = None \/ email_vec = None
       THEN [@ EXCEPT !.pc = "done", !.response = ServerError("AttributeError")]
       ELSE LET p == predict_proba(email_model[1],
                                   transform(email_vec[1], req[r].content))[1][2]
            IN  [@ EXCEPT !.pc = "done", !.email_prob = Some(p),
                          !.response = Ok([probability |-> p,
                                           risk |-> risk_level(p),
                                           phishing |-> phishing(p)])]]
  /\ UNCHANGED models

\* the coordinator's row with the two base outputs exchanged
X_meta_swapped(url_ml, email_prob) == <<<<email_prob, url_ml, 1, 1>>>>

\* np.array([[url_ml, email_prob, 1, 1]])
X_meta(url_ml, email_prob) == <<<<url_ml, email_prob, 1, 1>>>>

\* scan_combined, whole.
ScanCombined(r) ==
  /\ req[r].pc = "recv"
  /\ req[r].endpoint = "scan_combined"
  /\ req' = [req EXCEPT ![r] =
       IF url_model = None \/ url_vec = None \/ email_model = None
          \/ email_vec = None \/ coord_model = None
       THEN [@ EXCEPT !.pc = "done", !.response = ServerError("AttributeError")]
       ELSE LET p == predict_proba(url_model[1], transform(url_vec[1], req[r].url))[1][2]
                q == predict_proba(email_model[1],
                                   transform(email_vec[1], req[r].content))[1][2]
                X == X_meta(p, q)
                f == coord_predict_proba(coord_model[1], X)[1][2]
            IN  [@ EXCEPT !.pc = "done", !.url_ml = Some(p), !.email_prob = Some(q),
                          !.X_meta = X,
                          !.response = Ok([final_probability |-> f,
                                           risk |-> risk_level(f),
                                           phishing |-> phishing(f)])]]
  /\ UNCHANGED models

\* The response leaves; the request's locals are gone.
Deliver(r) ==
  /\ req[r].pc = "done"
  /\ req' = [req EXCEPT ![r] = Idle]
  /\ UNCHANGED models

\* The service under concurrent requests.
Next ==
  \/ load_models(FewBundles)
  \/ \E r \in Slots :
       \/ Receive(r, FewURLs, FewContents)
       \/ ReceiveInvalid(r)
       \/ ScanUrlBegin(r)
       \/ WhoisProbe(r, FewWhois)
       \/ DnsProbe(r)
       \/ SslProbe(r)
       \/ ScanEmail(r)
       \/ ScanCombined(r)
       \/ Deliver(r)

Spec == Init /\ [][Next]_vars

\* The service handling one request at a time, over the full input grid.
NextSeq ==
  \/ load_models(AllBundles)
  \/ Receive(1, AllURLs, AllContents)
  \/ ReceiveInvalid(1)
  \/ ScanUrlBegin(1)
  \/ WhoisProbe(1, AllWhois)
  \/ DnsProbe(1)
  \/ SslProbe(1)
  \/ ScanEmail(1)
  \/ ScanCombined(1)
  \/ Deliver(1)

SpecSeq == Init /\ [][NextSeq]_vars

\* ================================================================ claims
Scored(q) == q.pc = "done" /\ q.response.status = 200

\* The value an endpoint's verdict is taken from.
Final(q) ==
  IF q.endpoint = "scan_url" THEN q.response.body.blended_score
  ELSE IF q.endpoint = "scan_email" THEN q.response.body.probability
  ELSE q.response.body.final_probability

\* The rule conditions that hold of a set of signals.
Triggered(info) ==
  {c \in {"age", "dns", "ssl", "entropy"} :
     \/ c = "age" /\ info.age # None /\ info.age[1] < 30
     \/ c = "dns" /\ info.dns = FALSE
     \/ c = "ssl" /\ info.ssl = FALSE
     \/ c = "entropy" /\ info.entropy > 3500}

SignalGrid ==
  [age : {None} \cup {Some(a) : a \in {0, 5, 29, 30, 31, 4000}},
   dns : BOOLEAN, ssl : BOOLEAN, entropy : {0, 2585, 3500, 3501, 4000}]

AllTriggered == [age |-> Some(5), dns |-> FALSE, ssl |-> FALSE, entropy |-> 4000]

\* C1: the domain score of every /scan_url response, and rule_score on every
\* signal combination, is a quarter of the number of conditions that hold
\* (age known and under 30, no DNS, no TLS, entropy above 3.5), hence one of
\* 0, 0.25, 0.5, 0.75, 1; an unknown age is never counted; age 5 with no
\* DNS, no TLS and entropy 4.0 scores 1.0.
C1_RuleScoreCountsConditions ==
  /\ \A r \in Slots :
       (req[r].endpoint = "scan_url" /\ Scored(req[r])) =>
         LET d == req[r].response.body.domain_score
         IN  /\ d * 4 = Cardinality(Triggered(req[r].info)) * 1000
             /\ d \in {0, 250, 500, 750, 1000}
             /\ (req[r].info.age = None => "age" \notin Triggered(req[r].info))
             /\ (req[r].info = AllTriggered => d = 1000)
  /\ \A info \in SignalGrid :
       /\ rule_score(info) * 4 = Cardinality(Triggered(info)) * 1000
       /\ (info.age = None =>
             rule_score(info) = rule_score([info EXCEPT !.age = Some(4000)]))

C1_Witness ==
  \E r \in Slots :
    /\ req[r].endpoint = "scan_url" /\ Scored(req[r])
    /\ req[r].info = AllTriggered
    /\ req[r].response.body.domain_score = 1000

Rank(level) == IF level = "LOW" THEN 0 ELSE IF level = "MEDIUM" THEN 1 ELSE 2

ValueGrid == ProbGrid \cup {1, 299, 301, 599, 601, 999}

\* C2: the risk label of every response is LOW below 0.3, MEDIUM from 0.3
\* up to but excluding 0.6, HIGH from 0.6, and risk_level never decreases
\* as its argument grows.
C2_RiskLevelStep ==
  \A r \in Slots :
    Scored(req[r]) =>
      LET x == Final(req[r])
          l == req[r].response.body.risk
      IN  /\ l \in {"LOW", "MEDIUM", "HIGH"}
          /\ (l = "LOW") = (x < 300)
          /\ (l = "MEDIUM") = (300 <= x /\ x < 600)
          /\ (l = "HIGH") = (x >= 600)
          /\ \A y \in ValueGrid :
               /\ risk_level(y) \in {"LOW", "MEDIUM", "HIGH"}
               /\ (x <= y => Rank(l) <= Rank(risk_level(y)))
               /\ (y <= x => Rank(risk_level(y)) <= Rank(l))

C2_Witness ==
  \E r \in Slots :
    /\ Scored(req[r])
    /\ Final(req[r]) = 300
    /\ req[r].response.body.risk = "MEDIUM"

\* C3: in every response of the three endpoints the phishing flag is true
\* exactly when the endpoint's final value is at least 0.5, whatever the
\* risk label.
C3_PhishingIffHalf ==
  \A r \in Slots :
    Scored(req[r]) =>
      /\ req[r].response.body.phishing = (Final(req[r]) >= 500)
      /\ ((500 <= Final(req[r]) /\ Final(req[r]) < 600) =>
            req[r].response.body.phishing /\ req[r].response.body.risk = "MEDIUM")

C3_Witness ==
  \E r \in Slots :
    /\ Scored(req[r])
    /\ req[r].endpoint = "scan_combined"
    /\ Final(req[r]) >= 500 /\ Final(req[r]) < 600
    /\ req[r].response.body.phishing = TRUE
    /\ req[r].response.body.risk = "MEDIUM"

\* C4: the blended score of every /scan_url response is 0.3 times the URL
\* probability plus 0.7 times the rule score, lies in [0,1], and the risk
\* and the phishing flag are those of the blended value; 0.9 and 0.1 blend
\* to 0.34, MEDIUM, not phishing.
C4_BlendIsWeightedSum ==
  /\ \A r \in Slots :
       (req[r].endpoint = "scan_url" /\ Scored(req[r])) =>
         LET b == req[r].response.body
         IN  /\ b.ml_score \in 0..1000 /\ b.domain_score \in 0..1000
             /\ 10 * b.blended_score = 3 * b.ml_score + 7 * b.domain_score
             /\ b.blended_score \in 0..1000
             /\ (b.risk = "LOW") = (b.blended_score < 300)
             /\ (b.risk = "HIGH") = (b.blended_score >= 600)
             /\ b.phishing = (b.blended_score >= 500)
  /\ \A p \in ProbGrid, q \in ProbGrid :
       10 * blended(p, q) = 3 * p + 7 * q /\ blended(p, q) \in 0..1000
  /\ blended(900, 100) = 340 /\ risk_level(340) = "MEDIUM" /\ ~phishing(340)

C4_Witness ==
  \E r \in Slots :
    /\ req[r].endpoint = "scan_url" /\ Scored(req[r])
    /\ req[r].response.body.ml_score = 900
    /\ req[r].response.body.domain_score = 250
    /\ req[r].response.body.blended_score = 445
    /\ req[r].response.body.risk = "MEDIUM"
    /\ req[r].response.body.phishing = FALSE

AgeOf(w) ==
  IF w.kind = "date" \/ (w.kind = "list" /\ w.created # <<>>)
  THEN Some(Today - w.created[1])
  ELSE None

ProbeState ==
  \A r \in Slots :
    LET q == req[r]
    IN  (q.endpoint = "scan_url" /\ q.valid) =>
          /\ (q.pc = "whois" => q.calls = NoCalls /\ DOMAIN q.info = {})
          /\ (q.pc = "dns" =>
                /\ q.calls = [whois |-> 1, dns |-> 0, ssl |-> 0]
                /\ DOMAIN q.info = {"age"})
          /\ (q.pc = "ssl" =>
                /\ q.calls = [whois |-> 1, dns |-> 1, ssl |-> 0]
                /\ DOMAIN q.info = {"age", "dns"})
          /\ ((q.pc = "done" /\ q.whois # None) =>
                /\ q.calls = [whois |-> 1, dns |-> 1, ssl |-> 1]
                /\ DOMAIN q.info = {"age", "dns", "ssl", "entropy"}
                /\ q.response.status = 200
                /\ DOMAIN q.response.body =
                     {"ml_score", "domain_score", "blended_score", "risk", "phishing"})
          /\ (q.whois # None => q.info.age = AgeOf(q.whois[1]))
          /\ (q.dns # None => q.info.dns = q.dns[1])
          /\ (q.ssl # None => q.info.ssl = q.ssl[1])

ProbeStep ==
  \A r \in Slots :
    (req'[r] # req[r]) =>
      /\ (req[r].pc = "whois" => req'[r].pc = "dns")
      /\ (req[r].pc = "dns" => req'[r].pc = "ssl")
      /\ (req[r].pc = "ssl" => req'[r].pc = "done" /\ req'[r].response.status = 200)

\* C5: in extract_domain_info each of the three probes is attempted exactly
\* once, whatever the others answered; a probe that fails sets only its own
\* signal to its default (age unknown, dns false, ssl false) and the next
\* probe still runs; all four signals are returned and /scan_url answers
\* with a complete body.
C5_ProbesDegradeIndependently == []ProbeState /\ [][ProbeStep]_vars

C5_Witness ==
  \E r \in Slots :
    /\ req[r].endpoint = "scan_url" /\ Scored(req[r])
    /\ req[r].whois = Some(WhoisAnswer("raise", <<>>))
    /\ req[r].dns = Some(FALSE)
    /\ req[r].ssl = Some(TRUE)
    /\ req[r].info.age = None /\ req[r].info.dns = FALSE /\ req[r].info.ssl = TRUE
    /\ req[r].calls = [whois |-> 1, dns |-> 1, ssl |-> 1]

\* C6: a /scan_combined response is the coordinator's positive-class
\* probability on the row [urlML, emailML, 1, 1], in that order; the
\* request runs no probe and computes no signals, so two requests with the
\* same two probabilities get the same response.
C6_CoordinatorRowOnly ==
  \A r \in Slots :
    LET q == req[r]
    IN  (q.endpoint = "scan_combined") =>
          /\ q.pc \in {"recv", "done"}
          /\ q.calls = NoCalls /\ DOMAIN q.info = {}
          /\ q.whois = None /\ q.dns = None /\ q.ssl = None
          /\ (Scored(q) =>
                /\ q.url_ml = Some(url_model[1][q.url])
                /\ q.email_prob = Some(email_model[1][q.content])
                /\ q.X_meta = <<<<q.url_ml[1], q.email_prob[1], 1, 1>>>>
                /\ q.response.body.final_probability =
                     coord_predict_proba(coord_model[1],
                        <<<<url_model[1][q.url], email_model[1][q.content], 1, 1>>>>)[1][2]
                /\ \A s \in Slots :
                     (/\ req[s].endpoint = "scan_combined" /\ Scored(req[s])
                      /\ req[s].url_ml = q.url_ml /\ req[s].email_prob = q.email_prob)
                     => req[s].response = q.response)

C6_Witness ==
  \E r \in Slots :
    /\ req[r].endpoint = "scan_combined" /\ Scored(req[r])
    /\ req[r].X_meta = <<<<900, 500, 1, 1>>>>
    /\ req[r].response.body.final_probability = 900

NoneLoaded == <<None, None, None, None, None>>

\* Slot r's handler starts in this step, with the model globals still None.
HandledUnloaded(r) ==
  /\ models = NoneLoaded
  /\ req[r].pc = "recv"
  /\ req'[r] # req[r]

\* C7 as stated: a request handled while the models are not loaded is
\* answered with a service-unavailable (503) response.
C7_AnsweredServiceUnavailable ==
  [][\A r \in Slots : HandledUnloaded(r) => req'[r].response.status = 503]_vars

\* What the code does there: a request handled while the models are not
\* loaded fails at once with the unhandled AttributeError of the first use
\* of a None model, answered as 500 Internal Server Error; no score is
\* computed, no other request and no global is touched.
UnloadedIsInternalError ==
  [][\A r \in Slots :
       HandledUnloaded(r) =>
         /\ req'[r].pc = "done"
         /\ req'[r].response = ServerError("AttributeError")
         /\ req'[r].url_ml = None /\ req'[r].email_prob = None
         /\ \A s \in Slots \ {r} : req'[s] = req[s]
         /\ models' = models]_vars

UnloadedFailureSeen ==
  \E r \in Slots :
    /\ models = NoneLoaded
    /\ req[r].pc = "done" /\ req[r].valid
    /\ req[r].endpoint = "scan_email"
    /\ req[r].response.status = 500
    /\ req[r].response.error = "AttributeError"

\* A finished request that reached its handler with a url that has no
\* network authority.
NoAuthority(q) ==
  /\ q.pc = "done" /\ q.valid
  /\ q.endpoint \in {"scan_url", "scan_combined"}
  /\ netloc(q.url) = <<>>

\* C8 as stated: a url without a network authority is answered with a
\* client error and nothing is scored for it.
C8_NoAuthorityIsClientError ==
  \A r \in Slots :
    NoAuthority(req[r]) =>
      /\ req[r].response.status \in 400..499
      /\ req[r].url_ml = None
      /\ DOMAIN req[r].response.body = {}

\* C8, amended: a url without a network authority is never answered with a
\* client error; with the models loaded it is scored like any other: the
\* classifier runs on the raw string, /scan_url takes the raw string for
\* the domain, probes the registrable domain found in it (none for free
\* text) and returns the complete body; the only failure is the 500 of a
\* handler that ran before the models were loaded.
C8_NoAuthorityIsScored ==
  \A r \in Slots :
    LET q == req[r]
    IN  NoAuthority(q) =>
          /\ q.response.status \in {200, 500}
          /\ (q.response.status = 500 => q.response.error = "AttributeError")
          /\ (q.response.status = 200 =>
                /\ q.url_ml = Some(url_model[1][q.url])
                /\ (q.endpoint = "scan_url" =>
                      /\ q.registered = registered_domain(q.url)
                      /\ q.calls = [whois |-> 1, dns |-> 1, ssl |-> 1]
                      /\ q.info.entropy = shannon_entropy(Split(registered_domain(q.url), ".")[1])
                      /\ q.response.body = scan_url_body(q.url_ml[1], q.info))
                /\ (q.endpoint = "scan_combined" =>
                      DOMAIN q.response.body = {"final_probability", "risk", "phishing"}))

C8_Witness ==
  \E r \in Slots :
    /\ NoAuthority(req[r]) /\ Scored(req[r])
    /\ req[r].endpoint = "scan_url"
    /\ req[r].url = U_bare
    /\ req[r].registered = <<"p", "a", "y", "p", "a", "l", ".", "c", "o", "m">>
    /\ req[r].info.entropy = 1918

\* The response a scored request must carry, from its inputs, the answers
\* its probes got and the loaded models.
ExpectedBody(q) ==
  IF q.endpoint = "scan_url"
  THEN LET domain == IF netloc(q.url) # <<>> THEN netloc(q.url) ELSE q.url
           label == Split(registered_domain(domain), ".")[1]
       IN  scan_url_body(url_model[1][q.url],
                         [age |-> AgeOf(q.whois[1]), dns |-> q.dns[1],
                          ssl |-> q.ssl[1], entropy |-> shannon_entropy(label)])
  ELSE IF q.endpoint = "scan_email"
  THEN LET p == email_model[1][q.content]
       IN  [probability |-> p, risk |-> risk_level(p), phishing |-> phishing(p)]
  ELSE LET f == coord_predict_proba(coord_model[1],
                  <<<<url_model[1][q.url], email_model[1][q.content], 1, 1>>>>)[1][2]
       IN  [final_probability |-> f, risk |-> risk_level(f), phishing |-> phishing(f)]

ResponsesAsAlone ==
  \A r \in Slots :
    LET q == req[r]
    IN  /\ (Scored(q) => q.response = Ok(ExpectedBody(q)))
        /\ ((q.pc = "done" /\ q.valid /\ ~Scored(q)) =>
              \/ q.response = ServerError("AttributeError")
              \/ /\ q.response = ServerError("ValueError")
                 /\ q.endpoint = "scan_url" /\ urlparse_raises(q.url))

GlobalsWrittenAtStartupOnly ==
  (models' # models) =>
    /\ models = NoneLoaded
    /\ \A i \in 1..5 : models'[i] # None
    /\ req' = req

OneRequestPerStep ==
  \A r, s \in Slots : (r # s /\ req'[r] # req[r]) => req'[s] = req[s]

\* C9: under every interleaving of requests the five model globals are
\* written by the startup load only, a step of one request changes no other
\* request, and every response, failures included, is the one the request
\* gets alone from its inputs, its probes' answers and the loaded models.
C9_RequestsAreIsolated ==
  /\ []ResponsesAsAlone
  /\ [][GlobalsWrittenAtStartupOnly]_vars
  /\ [][OneRequestPerStep]_vars

C9_Witness ==
  \E r, s \in Slots :
    /\ r # s
    /\ req[r].pc = "done" /\ req[r].response = ServerError("ValueError")
    /\ req[s].pc = "done" /\ req[s].endpoint = "scan_email"
    /\ req[s].response.status = 200

====
